---- MODULE Spec2Model ----
(***************************************************************************)
(* A model of jsongit (src/jsongit/models.py): a versioned key-value store *)
(* for JSON documents on top of a git object database, with a structural   *)
(* diff, a conflict detector and a three-way merge.                        *)
(*                                                                         *)
(* Three specifications live in this module.                               *)
(*   Spec      the Repository: references, commits, trees and blobs, and   *)
(*             the operations commit, get, fast_forward and merge.         *)
(*   SpecPure  the pure functions Diff, DiffWrapper.apply and Conflict,    *)
(*             applied to JSON values drawn from a bounded universe.       *)
(*   SpecObject  the Objects (document handles) two clients hold on one    *)
(*             key: their mutations, commits and merges.                   *)
(***************************************************************************)
EXTENDS Integers, Sequences, FiniteSets, TLC

VARIABLES refs, commits, trees, blobs, last, calc, objs, meth

vars == <<refs, commits, trees, blobs, last, calc, objs, meth>>

(***************************************************************************)
(* Bounds of the model.                                                    *)
(***************************************************************************)
MaxLen == 3         \* longest array of the bounded JSON universe
MaxCommits == 4     \* commits a repository may hold
MaxExplicit == 2    \* commits that may come with explicit keyword arguments

(***************************************************************************)
(* JSON values as Python sees them.  Every value is a tagged record; the   *)
(* Python None and the JSON null are the same object, as in the json       *)
(* module.  Arrays are sequences, objects are functions from a finite set  *)
(* of strings.  Each type keeps its payload in a field of its own.         *)
(***************************************************************************)
None == [t |-> "null"]
Bool(b) == [t |-> "bool", b |-> b]
Num(n) == [t |-> "num", n |-> n]
Str(s) == [t |-> "str", s |-> s]
Arr(s) == [t |-> "arr", a |-> s]
Obj(f) == [t |-> "obj", o |-> f]

\* The empty dict / the empty sub-map of a diff.
EmptyMap == [k \in {} |-> None]

\* An exception raised by the Python code (AttributeError, IndexError,
\* KeyError, TypeError): the call returns no value.
Raised == [t |-> "raised"]

\* The set that is not a JSON value: json.dumps raises TypeError on it.
NotJson == [t |-> "set"]

ObjKeys == {"a", "b"}
Scalars == {None, Bool(FALSE), Bool(TRUE), Num(0), Num(1), Str(""), Str("x")}
ArrElems == {Num(0), Num(1)}
ObjElems == {Num(0), Num(1), None, Arr(<<>>), Arr(<<Num(1)>>)}

SeqsUpTo(S, n) == UNION {[1..m -> S] : m \in 0..n}
Arrays == {Arr(s) : s \in SeqsUpTo(ArrElems, MaxLen)}
Objects == {Obj(f) : f \in UNION {[D -> ObjElems] : D \in SUBSET ObjKeys}}

\* The bounded universe of JSON values of SpecPure.
JsonValues == Scalars \cup Arrays \cup Objects

(***************************************************************************)
(* Python semantics the code relies on.                                    *)
(***************************************************************************)
\* bool(x): None, False, 0, "", [] and {} are falsy.
Truthy(x) ==
    CASE x.t = "null" -> FALSE
      [] x.t = "bool" -> x.b
      [] x.t = "num" -> x.n # 0
      [] x.t = "str" -> x.s # ""
      [] x.t = "arr" -> Len(x.a) > 0
      [] x.t = "obj" -> DOMAIN x.o # {}
      [] OTHER -> TRUE

\* isinstance(obj2, obj1.__class__): bool is a subclass of int.
IsInstance(obj2, obj1) ==
    \/ obj2.t = obj1.t
    \/ obj1.t = "num" /\ obj2.t = "bool"

\* The number a bool or an int compares as.
AsInt(x) == IF x.t = "bool" THEN (IF x.b THEN 1 ELSE 0) ELSE x.n

\* x == y in Python for JSON values: True == 1 and False == 0.
RECURSIVE PyEq(_, _)
PyEq(x, y) ==
    CASE x.t \in {"bool", "num"} /\ y.t \in {"bool", "num"} ->
            AsInt(x) = AsInt(y)
      [] x.t = "arr" /\ y.t = "arr" ->
            /\ Len(x.a) = Len(y.a)
            /\ \A i \in 1..Len(x.a) : PyEq(x.a[i], y.a[i])
      [] x.t = "obj" /\ y.t = "obj" ->
            /\ DOMAIN x.o = DOMAIN y.o
            /\ \A k \in DOMAIN x.o : PyEq(x.o[k], y.o[k])
      [] OTHER -> x = y

\* The keys of a dict of list indices, in the order the dict iterates
\* (small ints hash to themselves: ascending).
RECURSIVE SortedKeys(_)
SortedKeys(S) ==
    IF S = {} THEN <<>>
    ELSE LET m == CHOOSE x \in S : \A y \in S : x <= y
         IN <<m>> \o SortedKeys(S \ {m})

(***************************************************************************)
(* json_diff.Comparator()._compare_elements(old, new): the raw diff.       *)
(* None when the two are equal, the new value when it replaces the old,    *)
(* and a dict with _append / _remove / _update otherwise.  A raw dict is   *)
(* the tagged record "jd"; kind tells a list diff (int indices from 0)     *)
(* from a dict diff (string keys).                                         *)
(***************************************************************************)
JD(kind, append, remove, update) ==
    [t |-> "jd", d |-> [kind |-> kind, append |-> append,
                        remove |-> remove, update |-> update]]

RECURSIVE compare_elements(_, _)
compare_elements(old, new) ==
    IF old = new THEN None
    ELSE IF old.t # new.t \/ old.t \notin {"arr", "obj"} THEN new
    ELSE IF old.t = "obj" THEN
        LET ko == DOMAIN old.o
            kn == DOMAIN new.o
            ch == {k \in ko \cap kn : old.o[k] # new.o[k]}
        IN JD("obj",
              [k \in kn \ ko |-> new.o[k]],
              [k \in ko \ kn |-> old.o[k]],
              [k \in ch |-> compare_elements(old.o[k], new.o[k])])
    ELSE
        LET lo == Len(old.a)
            ln == Len(new.a)
            inters == IF lo < ln THEN lo ELSE ln
            ch == {i \in 0..(inters - 1) : old.a[i + 1] # new.a[i + 1]}
        IN JD("arr",
              [i \in lo..(ln - 1) |-> new.a[i + 1]],
              [i \in ln..(lo - 1) |-> old.a[i + 1]],
              [i \in ch |-> compare_elements(old.a[i + 1], new.a[i + 1])])

(***************************************************************************)
(* DiffWrapper and Diff.                                                   *)
(***************************************************************************)
\* Diff.is_json_diff(obj): a dict that has one of the three diff keys.
is_json_diff(obj) == obj.t = "jd"

\* DiffWrapper.__init__(diff): the pair (_replace, _diff).
RECURSIVE DiffWrapper(_)
DiffWrapper(diff) ==
    IF is_json_diff(diff) THEN
        [replace |-> None,
         diff |-> JD(diff.d.kind, diff.d.append, diff.d.remove,
                     [k \in DOMAIN diff.d.update |->
                          DiffWrapper(diff.d.update[k])])]
    ELSE
        [replace |-> diff,
         diff |-> IF diff = None THEN Obj(EmptyMap) ELSE diff]

\* Diff.__init__(obj1, obj2).
Diff(obj1, obj2) ==
    IF IsInstance(obj2, obj1)
    THEN DiffWrapper(compare_elements(obj1, obj2))
    ELSE DiffWrapper(obj2)

\* self._diff.get(...) is there: _diff is a dict.  On a number, a string, a
\* bool or a list the properties remove, update and append raise
\* AttributeError.
HasGet(dw) == dw.diff.t \in {"jd", "obj"}

\* DiffWrapper.remove / update / append, or {} : self._diff.get(verb) or {}.
\* A dict that is not a json diff has none of the three keys.
Mod(dw, verb) == IF dw.diff.t = "jd" THEN dw.diff.d[verb] ELSE EmptyMap

\* The kind of container the sub-maps of the diff index.
KindOf(dw) == IF dw.diff.t = "jd" THEN dw.diff.d.kind ELSE "none"

\* The keys of a sub-map in the order viewitems() yields them: ascending for
\* list indices; for the string keys of a dict any fixed order (the result
\* does not depend on it, the keys of a dict are independent).
RECURSIVE viewitems(_, _)
viewitems(S, kind) ==
    IF S = {} THEN <<>>
    ELSE IF kind = "arr" THEN SortedKeys(S)
    ELSE LET k == CHOOSE x \in S : TRUE
         IN <<k>> \o viewitems(S \ {k}, kind)

\* obj.pop(k): list.pop raises IndexError past the end, dict.pop raises
\* KeyError on a missing key, and a scalar has no pop.
pop(obj, k, kind) ==
    IF obj.t = "arr" /\ kind = "arr" THEN
        IF k < Len(obj.a)
        THEN Arr([i \in 1..(Len(obj.a) - 1) |->
                      IF i <= k THEN obj.a[i] ELSE obj.a[i + 1]])
        ELSE Raised
    ELSE IF obj.t = "obj" /\ kind = "obj" THEN
        IF k \in DOMAIN obj.o
        THEN Obj([j \in DOMAIN obj.o \ {k} |-> obj.o[j]])
        ELSE Raised
    ELSE Raised

\* obj[k] exists.
HasItem(obj, k, kind) ==
    \/ obj.t = "arr" /\ kind = "arr" /\ k < Len(obj.a)
    \/ obj.t = "obj" /\ kind = "obj" /\ k \in DOMAIN obj.o

\* obj[k].
getitem(obj, k) == IF obj.t = "arr" THEN obj.a[k + 1] ELSE obj.o[k]

\* obj[k] = val on an existing item of a list, on any key of a dict.
setitem(obj, k, val) ==
    IF obj.t = "arr"
    THEN Arr([obj.a EXCEPT ![k + 1] = val])
    ELSE Obj([j \in DOMAIN obj.o \cup {k} |->
                  IF j = k THEN val ELSE obj.o[j]])

\* obj.insert(k, val) when obj has insert (a list), else obj[k] = val.
\* list.insert past the end appends.
insert_or_set(obj, k, val, kind) ==
    IF obj.t = "arr" /\ kind = "arr" THEN
        LET n == Len(obj.a)
            p == IF k < n THEN k ELSE n
        IN Arr([i \in 1..(n + 1) |->
                    IF i <= p THEN obj.a[i]
                    ELSE IF i = p + 1 THEN val
                    ELSE obj.a[i - 1]])
    ELSE IF obj.t = "obj" /\ kind = "obj" THEN setitem(obj, k, val)
    ELSE Raised

RECURSIVE apply(_, _)
RECURSIVE apply_remove(_, _, _, _)
RECURSIVE apply_update(_, _, _, _)
RECURSIVE apply_append(_, _, _, _)

\* for k, v in (self.remove or {}).viewitems(): obj.pop(k)
apply_remove(obj, ks, dw, kind) ==
    IF obj = Raised \/ ks = <<>> THEN obj
    ELSE apply_remove(pop(obj, Head(ks), kind), Tail(ks), dw, kind)

\* for k, v in (self.update or {}).viewitems(): obj[k] = v.apply(obj[k])
apply_update(obj, ks, dw, kind) ==
    IF obj = Raised \/ ks = <<>> THEN obj
    ELSE LET k == Head(ks)
             sub == IF HasItem(obj, k, kind)
                    THEN apply(Mod(dw, "update")[k], getitem(obj, k))
                    ELSE Raised
         IN apply_update(IF sub = Raised THEN Raised
                         ELSE setitem(obj, k, sub),
                         Tail(ks), dw, kind)

\* for k, v in (self.append or {}).viewitems(): insert or set
apply_append(obj, ks, dw, kind) ==
    IF obj = Raised \/ ks = <<>> THEN obj
    ELSE apply_append(insert_or_set(obj, Head(ks),
                                    Mod(dw, "append")[Head(ks)], kind),
                      Tail(ks), dw, kind)

\* DiffWrapper.apply(original).  `if self.replace:' is a truthiness test: a
\* replacement by None, False, 0, "", [] or {} takes the else branch, where
\* self.remove reads self._diff.get.
apply(dw, original) ==
    IF original = Raised THEN Raised
    ELSE IF Truthy(dw.replace) THEN dw.replace
    ELSE IF ~HasGet(dw) THEN Raised
    ELSE LET kind == KindOf(dw)
             o1 == apply_remove(original,
                                viewitems(DOMAIN Mod(dw, "remove"), kind),
                                dw, kind)
             o2 == apply_update(o1,
                                viewitems(DOMAIN Mod(dw, "update"), kind),
                                dw, kind)
         IN apply_append(o2, viewitems(DOMAIN Mod(dw, "append"), kind),
                         dw, kind)

(***************************************************************************)
(* Conflict.                                                               *)
(***************************************************************************)
\* x != y as Conflict.__init__ evaluates it on the recorded values.  The
\* values of append and remove are JSON values.  The values of update are
\* DiffWrapper objects: the class defines __eq__ and no __ne__, so in
\* Python 2 `!=' on two wrappers compares identities, and the wrappers of
\* two diffs are never the same object.
NotEqual(verb, x, y) == IF verb = "update" THEN TRUE ELSE ~PyEq(x, y)

\* The pairs of verbs without the pairs in the other order.
VerbPairs_combinations ==
    <<<<"append", "append">>, <<"append", "update">>, <<"append", "remove">>,
      <<"update", "update">>, <<"update", "remove">>,
      <<"remove", "remove">>>>

\* itertools.product(['append', 'update', 'remove'], repeat=2)
VerbPairs ==
    <<<<"append", "append">>, <<"append", "update">>, <<"append", "remove">>,
      <<"update", "append">>, <<"update", "update">>, <<"update", "remove">>,
      <<"remove", "append">>, <<"remove", "update">>, <<"remove", "remove">>>>

\* self._conflict.setdefault(verb, {})
setdefault(c, verb) ==
    IF verb \in DOMAIN c THEN c
    ELSE [x \in DOMAIN c \cup {verb} |-> IF x = verb THEN EmptyMap ELSE c[x]]

\* self._conflict[verb][k] = pair
set_conflict(c, verb, k, pair) ==
    [c EXCEPT ![verb] = [j \in DOMAIN c[verb] \cup {k} |->
                             IF j = k THEN pair ELSE c[verb][j]]]

\* The body of `for k in (k for k in mod1 if k in mod2)'.
RECURSIVE conflict_keys(_, _, _, _, _, _)
conflict_keys(c, ks, verb1, verb2, mod1, mod2) ==
    IF ks = <<>> THEN c
    ELSE LET k == Head(ks)
             c1 == setdefault(c, verb1)
             c2 == IF verb1 = verb2 /\ NotEqual(verb1, mod1[k], mod2[k])
                   THEN set_conflict(c1, verb1, k, <<mod1[k], mod2[k]>>)
                   ELSE set_conflict(
                            setdefault(
                                set_conflict(c1, verb1, k, <<mod1[k], None>>),
                                verb2),
                            verb2, k, <<None, mod2[k]>>)
         IN conflict_keys(c2, Tail(ks), verb1, verb2, mod1, mod2)

\* The loop over the pairs of verbs.  The keys of a list diff are ints and
\* those of a dict diff strings: no key of one is in the other.
RECURSIVE conflict_verbs(_, _, _, _)
conflict_verbs(c, i, diff1, diff2) ==
    IF i > Len(VerbPairs) THEN c
    ELSE LET verb1 == VerbPairs[i][1]
             verb2 == VerbPairs[i][2]
             mod1 == Mod(diff1, verb1)
             mod2 == Mod(diff2, verb2)
             both == IF KindOf(diff1) = KindOf(diff2)
                     THEN DOMAIN mod1 \cap DOMAIN mod2
                     ELSE {}
         IN conflict_verbs(
                conflict_keys(c, viewitems(both, KindOf(diff1)),
                              verb1, verb2, mod1, mod2),
                i + 1, diff1, diff2)

\* Conflict.__init__(diff1, diff2): the dict _conflict, or Raised when a
\* property of a diff raises.
Conflict(diff1, diff2) ==
    IF Truthy(diff1.replace) \/ Truthy(diff2.replace) THEN
        IF ~PyEq(diff1.replace, diff2.replace)
        THEN [x \in {"replace"} |-> <<diff1.replace, diff2.replace>>]
        ELSE EmptyMap
    ELSE IF ~HasGet(diff1) \/ ~HasGet(diff2) THEN Raised
    ELSE conflict_verbs(EmptyMap, 1, diff1, diff2)

\* Conflict.__nonzero__
nonzero(conflict) == DOMAIN conflict # {}

(***************************************************************************)
(* The JSON codec handed to the Repository (json.dumps, json.loads).  The  *)
(* encoded document is the sequence of the JSON tokens of its text.        *)
(***************************************************************************)
Numbers == 0..1
Strings == {"", "x"} \cup ObjKeys

RECURSIVE dumps(_)
RECURSIVE dumps_items(_, _)
RECURSIVE dumps_members(_, _)

\* The elements of a list from the i-th on, separated by commas.
dumps_items(s, i) ==
    IF i > Len(s) THEN <<>>
    ELSE (IF i > 1 THEN <<",">> ELSE <<>>) \o dumps(s[i])
             \o dumps_items(s, i + 1)

\* The members of a dict under the keys ks, separated by commas.
dumps_members(f, ks) ==
    IF ks = <<>> THEN <<>>
    ELSE <<ToString(Head(ks)), ":">> \o dumps(f[Head(ks)])
             \o (IF Len(ks) > 1 THEN <<",">> ELSE <<>>)
             \o dumps_members(f, Tail(ks))

\* json.dumps(data); Raised (TypeError) on a value that is not JSON.
dumps(data) ==
    CASE data.t = "null" -> <<"null">>
      [] data.t = "bool" -> IF data.b THEN <<"true">> ELSE <<"false">>
      [] data.t = "num" -> <<ToString(data.n)>>
      [] data.t = "str" -> <<ToString(data.s)>>
      [] data.t = "arr" -> <<"[">> \o dumps_items(data.a, 1) \o <<"]">>
      [] data.t = "obj" ->
            <<"{">> \o dumps_members(data.o, viewitems(DOMAIN data.o, "obj"))
                \o <<"}">>
      [] OTHER -> Raised

RECURSIVE parse_value(_)
RECURSIVE parse_items(_, _)
RECURSIVE parse_members(_, _)

\* The list whose elements start at toks; acc holds those already read.
parse_items(toks, acc) ==
    IF Head(toks) = "]" THEN [val |-> Arr(acc), rest |-> Tail(toks)]
    ELSE LET e == parse_value(IF Head(toks) = "," THEN Tail(toks) ELSE toks)
         IN parse_items(e.rest, Append(acc, e.val))

\* The dict whose members start at toks; acc holds those already read.
parse_members(toks, acc) ==
    IF Head(toks) = "}" THEN [val |-> Obj(acc), rest |-> Tail(toks)]
    ELSE LET ts == IF Head(toks) = "," THEN Tail(toks) ELSE toks
             key == CHOOSE k \in Strings : ToString(k) = Head(ts)
             e == parse_value(Tail(Tail(ts)))
         IN parse_members(e.rest,
                          [j \in DOMAIN acc \cup {key} |->
                               IF j = key THEN e.val ELSE acc[j]])

\* The value that starts at toks and the tokens that follow it.
parse_value(toks) ==
    LET tok == Head(toks)
    IN CASE tok = "null" -> [val |-> None, rest |-> Tail(toks)]
         [] tok = "true" -> [val |-> Bool(TRUE), rest |-> Tail(toks)]
         [] tok = "false" -> [val |-> Bool(FALSE), rest |-> Tail(toks)]
         [] tok = "[" -> parse_items(Tail(toks), <<>>)
         [] tok = "{" -> parse_members(Tail(toks), EmptyMap)
         [] \E n \in Numbers : ToString(n) = tok ->
                [val |-> Num(CHOOSE n \in Numbers : ToString(n) = tok),
                 rest |-> Tail(toks)]
         [] OTHER ->
                [val |-> Str(CHOOSE x \in Strings : ToString(x) = tok),
                 rest |-> Tail(toks)]

\* json.loads(raw_data)
loads(raw_data) == parse_value(raw_data).val

(***************************************************************************)
(* The git object database behind the Repository (pygit2).                 *)
(*   refs     reference name -> oid of the commit it points to             *)
(*   commits  the commit objects; the oid of a commit is its index         *)
(*   trees    the tree objects, blobs the blob objects; both are content   *)
(*            addressed, the object is its own id                          *)
(***************************************************************************)
\* The name of the only blob within the tree.
DATA == "data"

\* The ids of the commits in the database.
Oids == 1..Len(commits)

\* The commits reachable from oid, oid included.
RECURSIVE Ancestors(_)
Ancestors(oid) ==
    {oid} \cup UNION {Ancestors(commits[oid].parents[i]) :
                          i \in 1..Len(commits[oid].parents)}

\* The orders in which a topological walk may yield the commits of S: no
\* commit before any of its children.
RECURSIVE TopoOrders(_)
TopoOrders(S) ==
    IF S = {} THEN {<<>>}
    ELSE UNION {{<<c>> \o w : w \in TopoOrders(S \ {c})} :
                c \in {x \in S : \A d \in S \ {x} :
                          \A i \in 1..Len(commits[d].parents) :
                              commits[d].parents[i] # x}}

\* self._repo.walk(oid, GIT_SORT_TOPOLOGICAL): the possible results.
walk(oid) == TopoOrders(Ancestors(oid))

(***************************************************************************)
(* Repository.                                                             *)
(***************************************************************************)
\* isinstance(key, basestring)
IsString(key) == key.t = "str"

\* Repository._translate_key(key), for a string.
translate_key(key) == "refs/" \o key.s \o "/HEAD"

\* Repository.has(key), for a string.
has(key) == translate_key(key) \in DOMAIN refs

\* Repository.head(key).oid, for a key that has a reference.
head(key) == refs[translate_key(key)]

\* create_commit that moves no reference that is already there.
set_reference_stale(name, oid) ==
    [r \in DOMAIN refs \cup {name} |-> IF r \in DOMAIN refs THEN refs[r] ELSE oid]

\* The references after create_commit or create_reference set name to oid.
set_reference(name, oid) ==
    [r \in DOMAIN refs \cup {name} |-> IF r = name THEN oid ELSE refs[r]]

\* The references after lookup_reference(name).delete().
delete_reference(name) == [r \in DOMAIN refs \ {name} |-> refs[r]]

\* The tree _raw_commit writes for a blob.
tree_of(blob_id) == [mode |-> "100644", name |-> DATA, blob |-> blob_id]

\* Repository._raw_commit(key, data, message, parents) with data that
\* encodes: writes the blob, the tree and the commit, and create_commit
\* moves the reference of key to the new commit.
raw_commit(key, data, message, parents) ==
    /\ blobs' = blobs \cup {dumps(data)}
    /\ trees' = trees \cup {tree_of(dumps(data))}
    /\ commits' = Append(commits, [tree |-> tree_of(dumps(data)),
                                   parents |-> parents,
                                   message |-> message])
    /\ refs' = set_reference(translate_key(key), Len(commits) + 1)

\* The document of a commit: self._loads(self._repo[...tree[DATA].oid].data)
value_of(oid) == loads(commits[oid].tree.blob)

\* Object(repo, key, commit, value, autocommit): a fresh document handle.
Object(key, oid, value, autocommit) ==
    [key |-> key, head |-> oid, value |-> value,
     autocommit |-> autocommit, dirty |-> FALSE]

\* A Merge that is built without the conflict it is given.
Merge_without_conflict(successful, source_commit, dest_commit, message, conflict) ==
    [successful |-> successful, source_commit |-> source_commit,
     dest_commit |-> dest_commit, message |-> message,
     conflict |-> EmptyMap]

\* Merge(successful, source_commit, dest_commit, message, conflict)
Merge(successful, source_commit, dest_commit, message, conflict) ==
    [successful |-> successful, source_commit |-> source_commit,
     dest_commit |-> dest_commit, message |-> message,
     conflict |-> conflict]

\* No commit (commit=None) and the fields of last that a call leaves unset.
NoCommit == 0
NoObject == Object(None, NoCommit, None, FALSE)
NoMerge == Merge(FALSE, NoCommit, NoCommit, "", EmptyMap)

\* last: the call on the Repository that has just ended, its arguments,
\* whether it returned or raised, and the Object or Merge it returned; the
\* op "none" once the client has taken the result and is about to make its
\* next call.
Call(op, key, dest, data, commit, kwargs) ==
    [op |-> op, key |-> key, dest |-> dest, data |-> data,
     commit |-> commit, kwargs |-> kwargs,
     status |-> "returned", error |-> "",
     obj |-> NoObject, merge |-> NoMerge]

Raise(call, error) == [call EXCEPT !.status = "raised", !.error = error]
ReturnObject(call, obj) == [call EXCEPT !.obj = obj]
ReturnMerge(call, merge) == [call EXCEPT !.merge = merge]

\* The client holds no result: it makes its next call.
NoCall == Call("none", None, None, None, NoCommit, EmptyMap)
Ready == last = NoCall

\* The default message and the default parents of Repository.commit.
default_message(key) == IF has(key) THEN "" ELSE "first commit"
\* Default parents that leave the head of the key out.
default_parents_none(key) == <<>>
default_parents(key) == IF has(key) THEN <<head(key)>> ELSE <<>>

\* kwargs.pop(name, default)
kwargs_pop(kwargs, name, default) ==
    IF name \in DOMAIN kwargs THEN kwargs[name] ELSE default

\* Repository.get(key) as the last statement of a call that has moved the
\* references: the Object of the head of key in the new state.
get_after(key) == Object(key, head(key)', value_of(head(key))', FALSE)

\* Repository.commit(key, data, **kwargs)
commit(key, data, kwargs) ==
    LET call == Call("commit", key, None, data, NoCommit, kwargs)
    IN IF ~IsString(key) THEN
           /\ last' = Raise(call, "BadKeyTypeError")
           /\ UNCHANGED <<refs, commits, trees, blobs, calc>>
       ELSE IF data = NotJson THEN
           /\ last' = Raise(call, "NotJsonError")
           /\ UNCHANGED <<refs, commits, trees, blobs, calc>>
       ELSE
           /\ Len(commits) < MaxCommits
           /\ kwargs # EmptyMap => Len(commits) < MaxExplicit
           /\ raw_commit(key, data,
                         kwargs_pop(kwargs, "message", default_message(key)),
                         kwargs_pop(kwargs, "parents", default_parents(key)))
           /\ last' = ReturnObject(call, get_after(key))
           /\ UNCHANGED calc

\* Repository.get(key, commit)
get(key, oid) ==
    LET call == Call("get", key, None, None, oid, EmptyMap)
    IN /\ last' =
              IF oid # NoCommit
              THEN ReturnObject(call, Object(key, oid, value_of(oid), FALSE))
              ELSE IF ~IsString(key) THEN Raise(call, "BadKeyTypeError")
              ELSE IF ~has(key) THEN Raise(call, "KeyError")
              ELSE ReturnObject(call, Object(key, head(key),
                                             value_of(head(key)), FALSE))
       /\ UNCHANGED <<refs, commits, trees, blobs, calc>>

\* A fast_forward that renames the reference of source to dest: source is
\* left without a reference.
fast_forward_refs_rename(source, dest) ==
    IF ~IsString(source) \/ ~has(source)
    THEN [r \in DOMAIN refs \ {translate_key(dest)} |-> refs[r]]
    ELSE [r \in (DOMAIN refs \ {translate_key(source)})
                    \cup {translate_key(dest)} |->
              IF r = translate_key(dest) THEN head(source) ELSE refs[r]]

\* A fast_forward that creates the reference of dest only when dest has
\* none, and leaves the one it has.
fast_forward_refs_keep(source, dest) ==
    IF ~IsString(source) \/ ~has(source) \/ has(dest) THEN refs
    ELSE [r \in DOMAIN refs \cup {translate_key(dest)} |->
              IF r = translate_key(dest) THEN head(source) ELSE refs[r]]

\* The references after the body of Repository.fast_forward(source, dest)
\* for source # dest and a string dest: the reference of dest is deleted
\* if it is there, then head(source) is looked up and the reference is
\* created again; the lookup raises when source has no reference.
fast_forward_refs(source, dest) ==
    LET dest_ref == translate_key(dest)
        deleted == IF has(dest) THEN delete_reference(dest_ref) ELSE refs
    IN IF ~IsString(source) \/ ~has(source) THEN deleted
       ELSE [r \in DOMAIN deleted \cup {dest_ref} |->
                 IF r = dest_ref THEN head(source) ELSE deleted[r]]

\* Repository.fast_forward(source, dest)
fast_forward(source, dest) ==
    LET call == Call("fast_forward", source, dest, None, NoCommit, EmptyMap)
    IN IF source = dest THEN
           /\ last' = Raise(call, "ValueError")
           /\ UNCHANGED <<refs, commits, trees, blobs, calc>>
       ELSE IF ~IsString(dest) THEN
           /\ last' = Raise(call, "BadKeyTypeError")
           /\ UNCHANGED <<refs, commits, trees, blobs, calc>>
       ELSE
           /\ refs' = fast_forward_refs(source, dest)
           /\ UNCHANGED <<commits, trees, blobs, calc>>
           /\ last' = IF ~IsString(source) THEN Raise(call, "BadKeyTypeError")
                      ELSE IF ~has(source) THEN Raise(call, "KeyError")
                      ELSE ReturnObject(call, get_after(dest))

\* A merge that never takes its heads for the same commit.
same_commit_never(source_head, dest_head) == FALSE

\* source_head.oid == dest_head.oid
same_commit(source_head, dest_head) == source_head = dest_head

\* A test that looks for dest_head among source_head and its parents only.
can_fast_forward_parent(source_head, dest_head) ==
    \/ dest_head = source_head
    \/ \E i \in 1..Len(commits[source_head].parents) :
           commits[source_head].parents[i] = dest_head

\* dest_head.oid in source_commit_oids, the commits of the walk of source.
can_fast_forward(source_head, dest_head) ==
    dest_head \in Ancestors(source_head)

\* A shared parent taken from the end of the walk of dest: the last commit
\* of the walk that the walk of source yields too.
shared_commit_last(dest_commit_oids, source_commit_oids) ==
    IF \A i \in 1..Len(dest_commit_oids) :
           dest_commit_oids[i] \notin source_commit_oids
    THEN NoCommit
    ELSE dest_commit_oids[
             CHOOSE i \in 1..Len(dest_commit_oids) :
                 /\ dest_commit_oids[i] \in source_commit_oids
                 /\ \A j \in (i + 1)..Len(dest_commit_oids) :
                        dest_commit_oids[j] \notin source_commit_oids]

\* The shared parent of merge: the first commit of the walk of dest that
\* the walk of source yields too, NoCommit when there is none.
RECURSIVE shared_commit(_, _)
shared_commit(dest_commit_oids, source_commit_oids) ==
    IF dest_commit_oids = <<>> THEN NoCommit
    ELSE IF Head(dest_commit_oids) \in source_commit_oids
    THEN Head(dest_commit_oids)
    ELSE shared_commit(Tail(dest_commit_oids), source_commit_oids)

\* "Auto-merge from %s" % shared_commit.hex
auto_merge_message(oid) == "Auto-merge from " \o ToString(oid)

\* The parents of an automatic merge with dest first.
merge_parents_swapped(source_head, dest_head) == <<dest_head, source_head>>

\* The parents of an automatic merge that records the head of dest alone.
merge_parents_dest(source_head, dest_head) == <<dest_head>>

\* The parents of the commit that an automatic merge writes.
merge_parents(source_head, dest_head) == <<source_head, dest_head>>

\* dest_diff.apply(source_diff.apply(shared_commit.object.value))
merged_data(source_diff, dest_diff, value) ==
    apply(dest_diff, apply(source_diff, value))

\* Repository.merge(source, dest) from "Do a merge if there were no
\* overlapping changes" on, with the walk of dest it has obtained.
three_way(call, source, dest, dest_commit_oids) ==
    LET source_head == head(source)
        dest_head == head(dest)
        shared == shared_commit(dest_commit_oids, Ancestors(source_head))
    IN IF shared = NoCommit THEN
           /\ last' = ReturnMerge(call, Merge(FALSE, source_head, dest_head,
                                              "No shared parent", EmptyMap))
           /\ UNCHANGED <<refs, commits, trees, blobs, calc>>
       ELSE
           LET source_diff == Diff(value_of(shared), value_of(source_head))
               dest_diff == Diff(value_of(shared), value_of(dest_head))
               conflict == Conflict(source_diff, dest_diff)
               merged == merged_data(source_diff, dest_diff, value_of(shared))
           IN IF conflict = Raised THEN
                  /\ last' = Raise(call, "AttributeError")
                  /\ UNCHANGED <<refs, commits, trees, blobs, calc>>
              ELSE IF nonzero(conflict) THEN
                  /\ last' = ReturnMerge(call,
                                 Merge(FALSE, source_head, dest_head,
                                       "Merge conflict", conflict))
                  /\ UNCHANGED <<refs, commits, trees, blobs, calc>>
              ELSE IF merged = Raised THEN
                  /\ last' = Raise(call, "AttributeError")
                  /\ UNCHANGED <<refs, commits, trees, blobs, calc>>
              ELSE
                  /\ Len(commits) < MaxCommits
                  /\ raw_commit(dest, merged, auto_merge_message(shared),
                                merge_parents(source_head, dest_head))
                  /\ last' = ReturnMerge(call,
                                 Merge(TRUE, source_head, dest_head,
                                       auto_merge_message(shared), EmptyMap))
                  /\ UNCHANGED calc

\* Repository.merge(source, dest)
merge(source, dest) ==
    LET call == Call("merge", source, dest, None, NoCommit, EmptyMap)
    IN IF ~IsString(source) \/ (has(source) /\ ~IsString(dest)) THEN
           /\ last' = Raise(call, "BadKeyTypeError")
           /\ UNCHANGED <<refs, commits, trees, blobs, calc>>
       ELSE IF ~has(source) \/ ~has(dest) THEN
           /\ last' = Raise(call, "KeyError")
           /\ UNCHANGED <<refs, commits, trees, blobs, calc>>
       ELSE IF same_commit(head(source), head(dest)) THEN
           /\ last' = ReturnMerge(call, Merge(TRUE, head(source), head(dest),
                                              "Same commit", EmptyMap))
           /\ UNCHANGED <<refs, commits, trees, blobs, calc>>
       ELSE IF can_fast_forward(head(source), head(dest)) THEN
           /\ refs' = fast_forward_refs(source, dest)
           /\ last' = ReturnMerge(call, Merge(TRUE, head(source), head(dest),
                                              "Fast forward", EmptyMap))
           /\ UNCHANGED <<commits, trees, blobs, calc>>
       ELSE \E dest_commit_oids \in walk(head(dest)) :
                three_way(call, source, dest, dest_commit_oids)

(***************************************************************************)
(* Objects: the document handles the clients hold.                         *)
(***************************************************************************)
\* The clients that hold an Object: the first asks for its Objects without
\* autocommit, the second with autocommit.
Clients == {"c1", "c2"}
autocommit_of(client) == client = "c2"

\* objs: the Object each client holds, NoObject before its first one.
NoObjects == [client \in Clients |-> NoObject]

\* meth: the call on an Object (or the call on the Repository that gave a
\* client its Object) that has just ended, and whether it returned or
\* raised; the op "none" when the client is about to make its next call.
Meth(op, client, item) ==
    [op |-> op, client |-> client, item |-> item,
     status |-> "returned", error |-> ""]

NoMeth == Meth("none", "", None)

(***************************************************************************)
(* Spec: the Repository under the calls of its clients.                    *)
(***************************************************************************)
\* calc when no pure function is being computed.
Idle == [op |-> "idle", anc |-> None, a |-> None, b |-> None, out |-> None]

Keys == {Str("k1"), Str("k2")}
KeyArgs == Keys \cup {None}

\* The calls of commit the clients make: the key, the document and the
\* keyword arguments of each.  One key receives the empty document and a
\* document with one member; the other a document with another member,
\* a root commit (among the first MaxExplicit commits) with a message of
\* its own that gives the member of the first key another value, and a
\* set, which is not JSON.  A commit under None has no string for a key.
CommitCalls ==
    {<<Str("k1"), Obj(EmptyMap), EmptyMap>>,
     <<Str("k1"), Obj([k \in {"a"} |-> Num(1)]), EmptyMap>>,
     <<Str("k2"), Obj([k \in {"b"} |-> Num(1)]), EmptyMap>>,
     <<Str("k2"), Obj([k \in {"a"} |-> Num(0)]),
       [message |-> "m", parents |-> <<>>]>>,
     <<Str("k2"), NotJson, EmptyMap>>,
     <<None, Obj(EmptyMap), EmptyMap>>}

\* The calls of get the clients make: a key, a commit (the head of a key),
\* both, or neither.
GetCalls ==
    {<<key, NoCommit>> : key \in KeyArgs}
        \cup {<<key, refs[r]>> : key \in {None, Str("k1")}, r \in DOMAIN refs}

Init ==
    /\ refs = [r \in {} |-> NoCommit]
    /\ commits = <<>>
    /\ trees = {}
    /\ blobs = {}
    /\ last = NoCall
    /\ calc = Idle
    /\ objs = NoObjects
    /\ meth = NoMeth

\* The client holds the result of a merge that returned success: it may
\* make the same call of merge again at once.
Merged ==
    /\ last.op = "merge" /\ last.status = "returned"
    /\ last.merge.successful

\* The client takes the result of its call.
Return ==
    /\ ~Ready
    /\ last' = NoCall
    /\ UNCHANGED <<refs, commits, trees, blobs, calc, objs, meth>>

Next ==
    \/ /\ Ready /\ \E c \in CommitCalls : commit(c[1], c[2], c[3])
       /\ UNCHANGED <<objs, meth>>
    \/ /\ Ready /\ \E c \in GetCalls : get(c[1], c[2])
       /\ UNCHANGED <<objs, meth>>
    \/ /\ Ready /\ \E source \in Keys, dest \in Keys :
                      fast_forward(source, dest)
       /\ UNCHANGED <<objs, meth>>
    \/ /\ Ready /\ \E source \in Keys, dest \in Keys : merge(source, dest)
       /\ UNCHANGED <<objs, meth>>
    \/ /\ Merged /\ \E source \in {last.key}, dest \in {last.dest} :
                       merge(source, dest)
       /\ UNCHANGED <<objs, meth>>
    \/ Return

Spec == Init /\ [][Next]_vars

(***************************************************************************)
(* SpecPure: the pure functions on the bounded universe.  The initial      *)
(* state draws an ancestor document and two documents derived from it;     *)
(* calc holds them, the call made on them and what the call returned.      *)
(***************************************************************************)
\* apply(Diff(a, b), a): the diff of two documents applied to the first.
DiffApply ==
    /\ calc.op = "input"
    /\ calc' = [calc EXCEPT !.op = "diff_apply",
                            !.out = apply(Diff(calc.a, calc.b), calc.a)]
    /\ UNCHANGED <<refs, commits, trees, blobs, last, objs, meth>>

\* Conflict(Diff(anc, a), Diff(anc, b)): the conflict of the two diffs that
\* merge takes from the shared ancestor.
Detect ==
    /\ calc.op = "input"
    /\ calc' = [calc EXCEPT !.op = "detect",
                            !.out = Conflict(Diff(calc.anc, calc.a),
                                             Diff(calc.anc, calc.b))]
    /\ UNCHANGED <<refs, commits, trees, blobs, last, objs, meth>>

\* The two diffs merge takes from the shared ancestor anc for a source at a
\* and a dest at b, their conflict, and the merged data in the order merge
\* applies them and in the other order.
MergeOrders ==
    /\ calc.op = "input"
    /\ LET source_diff == Diff(calc.anc, calc.a)
           dest_diff == Diff(calc.anc, calc.b)
       IN calc' = [calc EXCEPT
                       !.op = "merge_orders",
                       !.out = [conflict |-> Conflict(source_diff, dest_diff),
                                merged |-> merged_data(source_diff, dest_diff,
                                                       calc.anc),
                                swapped |-> merged_data(dest_diff, source_diff,
                                                        calc.anc)]]
    /\ UNCHANGED <<refs, commits, trees, blobs, last, objs, meth>>

InitPure ==
    /\ refs = [r \in {} |-> NoCommit]
    /\ commits = <<>>
    /\ trees = {}
    /\ blobs = {}
    /\ last = NoCall
    /\ objs = NoObjects
    /\ meth = NoMeth
    /\ \E anc \in JsonValues, a \in JsonValues, b \in JsonValues :
           calc = [op |-> "input", anc |-> anc, a |-> a, b |-> b,
                   out |-> None]

NextPure ==
    \/ DiffApply
    \/ Detect
    \/ MergeOrders

SpecPure == InitPure /\ [][NextPure]_vars

\* C1: for all JSON values a and b, apply(diff(a, b), a) equals b.
DiffApplyLaw == calc.op = "diff_apply" => calc.out = calc.b

\* diff(x, y) is Structural: the two are equal, or containers of one kind.
IsStructural(x, y) == x = y \/ (x.t = y.t /\ x.t \in {"arr", "obj"})

Verbs == {"append", "update", "remove"}

\* Every key the two diffs both touch is touched under the same sub-map
\* with the same recorded value.
SameEdits(diff1, diff2) ==
    \A verb1 \in Verbs, verb2 \in Verbs :
        \A k \in DOMAIN Mod(diff1, verb1) \cap DOMAIN Mod(diff2, verb2) :
            /\ verb1 = verb2
            /\ Mod(diff1, verb1)[k] = Mod(diff2, verb2)[k]

\* C3: two Structural diffs whose shared keys carry identical edits give an
\* empty conflict.
IdenticalEditsNoConflict ==
    (/\ calc.op = "detect"
     /\ IsStructural(calc.anc, calc.a)
     /\ IsStructural(calc.anc, calc.b)
     /\ SameEdits(Diff(calc.anc, calc.a), Diff(calc.anc, calc.b)))
    => ~nonzero(calc.out)

(***************************************************************************)
(* The Repository after a call.  In the step of a call the unprimed        *)
(* variables are the repository before the call and last' is the call and  *)
(* its result.                                                             *)
(***************************************************************************)
has_after(key) == translate_key(key) \in DOMAIN refs'
head_after(key) == refs'[translate_key(key)]
value_after(oid) == loads(commits'[oid].tree.blob)

\* The errors of kind InvalidArgument: the ValueError of fast_forward and
\* the TypeError of unknown keyword arguments.
InvalidArgument == {"ValueError", "TypeError"}

MergeReturned == last'.op = "merge" /\ last'.status = "returned"

\* C2: a merge that succeeds through the three-way path leaves dest at a
\* new commit whose parents are the old heads of source and dest, in this
\* order, and whose document is dest_diff applied to source_diff applied to
\* the document of the shared ancestor the merge selected, both diffs taken
\* from that ancestor.
AutoMergeValid ==
    [][(/\ MergeReturned
        /\ last'.merge.successful
        /\ last'.merge.message \notin {"Same commit", "Fast forward"})
       => \E shared \in Ancestors(head(last'.key))
                            \cap Ancestors(head(last'.dest)) :
              /\ last'.merge.message = auto_merge_message(shared)
              /\ has_after(last'.dest)
              /\ head_after(last'.dest) \notin Oids
              /\ head_after(last'.dest) \in DOMAIN commits'
              /\ commits'[head_after(last'.dest)].parents
                     = <<head(last'.key), head(last'.dest)>>
              /\ value_after(head_after(last'.dest))
                     = apply(Diff(value_of(shared),
                                  value_of(head(last'.dest))),
                             apply(Diff(value_of(shared),
                                        value_of(head(last'.key))),
                                   value_of(shared)))]_vars

\* A three-way merge of two lineages that added different members has
\* returned: dest holds both members.
AutoMergeDone ==
    /\ last.op = "merge" /\ last.status = "returned"
    /\ last.merge.successful
    /\ last.merge.message \notin {"Same commit", "Fast forward"}
    /\ Len(commits[head(last.dest)].parents) = 2
    /\ value_of(head(last.dest)) = Obj([k \in {"a", "b"} |-> Num(1)])

\* C4: a merge that returns failure has one of the two failure messages,
\* writes no commit, tree or blob and moves no reference, and a "Merge
\* conflict" carries a conflict that is not empty.
FailedMergeWritesNothing ==
    [][(MergeReturned /\ ~last'.merge.successful)
       => /\ last'.merge.message \in {"Merge conflict", "No shared parent"}
          /\ UNCHANGED <<refs, commits, trees, blobs>>
          /\ last'.merge.message = "Merge conflict"
                 => nonzero(last'.merge.conflict)]_vars

\* A merge has returned "Merge conflict" for two lineages of which one
\* gave member a another value and the other removed it.
MergeConflictReturned ==
    /\ last.op = "merge" /\ last.status = "returned"
    /\ ~last.merge.successful
    /\ last.merge.message = "Merge conflict"
    /\ value_of(head(last.key)) = Obj([k \in {"a"} |-> Num(1)])
    /\ value_of(head(last.dest)) = Obj([k \in {"b"} |-> Num(1)])
    /\ {"update", "remove"} \subseteq DOMAIN last.merge.conflict
    /\ "a" \in DOMAIN last.merge.conflict["update"]
    /\ "a" \in DOMAIN last.merge.conflict["remove"]

\* C5: when the head of dest is a proper ancestor of the head of source,
\* merge(source, dest) returns success with "Fast forward", the head of
\* dest is then the head of source, and no commit, tree or blob is written.
FastForwardMerge ==
    [][(/\ last'.op = "merge"
        /\ has(last'.key) /\ has(last'.dest)
        /\ head(last'.dest) # head(last'.key)
        /\ head(last'.dest) \in Ancestors(head(last'.key)))
       => /\ MergeReturned
          /\ last'.merge.successful
          /\ last'.merge.message = "Fast forward"
          /\ has_after(last'.dest)
          /\ head_after(last'.dest) = head(last'.key)
          /\ UNCHANGED <<commits, trees, blobs>>]_vars

\* A merge has fast-forwarded dest over two commits or more: the commit
\* dest was at is no parent of the head of source.
FastForwardedFar ==
    /\ last.op = "merge" /\ last.status = "returned"
    /\ last.merge.message = "Fast forward"
    /\ head(last.dest) = last.merge.source_commit
    /\ last.merge.dest_commit # last.merge.source_commit
    /\ \A i \in 1..Len(commits[last.merge.source_commit].parents) :
           commits[last.merge.source_commit].parents[i]
               # last.merge.dest_commit

\* C6: when the heads of source and dest are the same commit, merge returns
\* success with "Same commit", moves no reference and writes no object.
SameCommitMerge ==
    [][(/\ last'.op = "merge"
        /\ has(last'.key) /\ has(last'.dest)
        /\ head(last'.key) = head(last'.dest))
       => /\ MergeReturned
          /\ last'.merge.successful
          /\ last'.merge.message = "Same commit"
          /\ UNCHANGED <<refs, commits, trees, blobs>>]_vars

\* A merge of two distinct keys whose heads are one commit has returned.
SameCommitReturned ==
    /\ last.op = "merge" /\ last.status = "returned"
    /\ last.key # last.dest
    /\ last.merge.source_commit = last.merge.dest_commit
    /\ head(last.key) = head(last.dest)

\* C7: when commit(k, v) returns, k has a reference, its head is the commit
\* the call has just written, and the Object of get(k), which the call
\* returns, holds a value equal to v.
CommitGetRoundTrip ==
    [][(last'.op = "commit" /\ last'.status = "returned")
       => /\ has_after(last'.key)
          /\ Len(commits') = Len(commits) + 1
          /\ head_after(last'.key) = Len(commits) + 1
          /\ last'.obj.head = head_after(last'.key)
          /\ last'.obj.value = last'.data
          /\ PyEq(value_after(head_after(last'.key)), last'.data)]_vars

\* A commit on a key that had another document has returned.
CommitReturned ==
    /\ last.op = "commit" /\ last.status = "returned"
    /\ last.data = Obj([k \in {"a"} |-> Num(1)])
    /\ Len(commits[head(last.key)].parents) = 1
    /\ value_of(commits[head(last.key)].parents[1]) # last.data

\* C8: a commit without parents has for parents the head its key had, or
\* none when the key had no reference; without a message its message is
\* "first commit" exactly when the key had no reference and "" otherwise;
\* hence the log of the key is the new commit followed by the log the key
\* had, so that n default commits on a fresh key are one chain of n.
ParentLinkage ==
    [][(/\ last'.op = "commit" /\ last'.status = "returned"
        /\ "parents" \notin DOMAIN last'.kwargs)
       => \E new \in {Len(commits) + 1} :
              /\ Len(commits') = new
              /\ head_after(last'.key) = new
              /\ commits'[new].parents =
                     IF has(last'.key) THEN <<head(last'.key)>> ELSE <<>>
              /\ "message" \notin DOMAIN last'.kwargs
                     => commits'[new].message =
                            IF has(last'.key) THEN "" ELSE "first commit"
              /\ walk(new)' =
                     {<<new>> \o w :
                          w \in IF has(last'.key)
                                THEN walk(head(last'.key)) ELSE {<<>>}}]_vars

\* Three default commits on one fresh key have been made: its log is the
\* chain of the three, the first one the root.
ThreeDefaultCommits ==
    /\ last.op = "commit" /\ last.status = "returned"
    /\ last.kwargs = EmptyMap
    /\ head(last.key) = 3
    /\ walk(3) = {<<3, 2, 1>>}
    /\ commits[1].message = "first commit"
    /\ commits[2].message = "" /\ commits[3].message = ""
    /\ commits[1].parents = <<>>

\* C9: a get that is given both a key and a commit, or neither, raises an
\* error of kind InvalidArgument and returns no Object.
GetExactlyOne ==
    (/\ last.op = "get"
     /\ (last.key # None) = (last.commit # NoCommit))
    => /\ last.status = "raised"
       /\ last.error \in InvalidArgument
       /\ last.obj = NoObject

\* C10: fast_forward(source, dest) with source = dest raises an error of
\* kind InvalidArgument and changes nothing; with distinct keys and a
\* source that has a reference it returns with the reference of dest at
\* the head of source, whatever dest had, writes no commit, tree or blob
\* and leaves the reference of source as it was.
FastForwardContract ==
    [][last'.op = "fast_forward"
       => /\ last'.key = last'.dest
                 => /\ last'.status = "raised"
                    /\ last'.error \in InvalidArgument
                    /\ UNCHANGED <<refs, commits, trees, blobs>>
          /\ (last'.key # last'.dest /\ has(last'.key))
                 => /\ last'.status = "returned"
                    /\ has_after(last'.dest)
                    /\ head_after(last'.dest) = head(last'.key)
                    /\ UNCHANGED <<commits, trees, blobs>>
                    /\ has_after(last'.key)
                    /\ head_after(last'.key) = head(last'.key)]_vars

\* A fast_forward has returned that moved dest off a commit the head of
\* source does not reach: no reference reaches that commit any more.
FastForwardAbandoned ==
    /\ last.op = "fast_forward" /\ last.status = "returned"
    /\ head(last.dest) = head(last.key)
    /\ \E c \in Oids : \A r \in DOMAIN refs : c \notin Ancestors(refs[r])

(***************************************************************************)
(* The diffs and the conflict detector on the bounded universe.            *)
(***************************************************************************)
\* Whether a conflict holds an entry; a Conflict that raised holds none.
Contested(conflict) == conflict # Raised /\ nonzero(conflict)

\* C11: for two diffs L and R taken from one ancestor, Conflict(L, R) is
\* not empty if and only if Conflict(R, L) is not empty (and one is raised
\* if and only if the other is).
ConflictSymmetry ==
    calc.op = "detect"
    => LET swapped == Conflict(Diff(calc.anc, calc.b),
                               Diff(calc.anc, calc.a))
       IN /\ (calc.out = Raised) = (swapped = Raised)
          /\ Contested(calc.out) = Contested(swapped)

\* A conflict has been detected between a side that removes member a and
\* a side that updates it.
RemoveUpdateDetected ==
    /\ calc.op = "detect"
    /\ calc.anc = Obj([k \in {"a"} |-> Num(0)])
    /\ calc.a = Obj(EmptyMap)
    /\ calc.b = Obj([k \in {"a"} |-> Num(1)])
    /\ Contested(calc.out)

\* C13: when the conflict of the two diffs of an ancestor is empty, the
\* dest diff applied after the source diff gives what the source diff
\* applied after the dest diff gives: both orders return, with equal values.
CommutativeApply ==
    (/\ calc.op = "merge_orders"
     /\ calc.out.conflict # Raised
     /\ ~nonzero(calc.out.conflict))
    => \/ calc.out.merged = Raised /\ calc.out.swapped = Raised
       \/ /\ calc.out.merged # Raised
          /\ calc.out.swapped # Raised
          /\ PyEq(calc.out.merged, calc.out.swapped)

\* C14: for all JSON values the diff of two of them applied to the first,
\* and the conflict of two diffs of one ancestor, complete with a value:
\* none raises.
NeverFails ==
    /\ calc.op = "diff_apply" => calc.out # Raised
    /\ calc.op = "detect" => calc.out # Raised

\* diff(x, y) is a Replace: not Structural.
IsReplace(x, y) == ~IsStructural(x, y)

\* C16: the conflict of a Replace and an identity diff (one side replaced
\* the document of the ancestor, the other has the document of the
\* ancestor) is empty.
ReplaceAgainstUnchanged ==
    (/\ calc.op = "detect"
     /\ \/ IsReplace(calc.anc, calc.a) /\ calc.b = calc.anc
        \/ IsReplace(calc.anc, calc.b) /\ calc.a = calc.anc)
    => ~Contested(calc.out) /\ calc.out # Raised

(***************************************************************************)
(* The Repository: the ancestor of a merge, the references a call leaves   *)
(* alone, and the calls that raise.                                        *)
(***************************************************************************)
\* The first commit of the walk w that is among the commits S, NoCommit
\* when there is none.
FirstShared(w, S) ==
    IF \A i \in 1..Len(w) : w[i] \notin S THEN NoCommit
    ELSE w[CHOOSE i \in 1..Len(w) :
               w[i] \in S /\ \A j \in 1..(i - 1) : w[j] \notin S]

\* The call of the step is a merge of two keys with references whose heads
\* are neither the same commit nor fit for a fast forward.
ThreeWayCall ==
    /\ last'.op = "merge"
    /\ has(last'.key) /\ has(last'.dest)
    /\ head(last'.key) # head(last'.dest)
    /\ head(last'.dest) \notin Ancestors(head(last'.key))

\* C15: a merge that is neither on equal heads nor a fast forward works
\* from the first commit of a topological walk from head(dest) that is
\* among the commits walked from head(source): a success names it in its
\* message and a "Merge conflict" carries the conflict of the two diffs
\* taken from it; when the walks share no commit the merge returns the
\* failure "No shared parent" and writes nothing.
SharedAncestorSelection ==
    [][(ThreeWayCall /\ last'.status = "returned")
       => \E w \in walk(head(last'.dest)) :
              LET shared == FirstShared(w, Ancestors(head(last'.key)))
              IN IF shared = NoCommit
                 THEN /\ ~last'.merge.successful
                      /\ last'.merge.message = "No shared parent"
                      /\ UNCHANGED <<refs, commits, trees, blobs>>
                 ELSE IF last'.merge.successful
                 THEN last'.merge.message = auto_merge_message(shared)
                 ELSE /\ last'.merge.message = "Merge conflict"
                      /\ last'.merge.conflict =
                             Conflict(Diff(value_of(shared),
                                           value_of(head(last'.key))),
                                      Diff(value_of(shared),
                                           value_of(head(last'.dest))))]_vars

\* A merge has worked from a shared ancestor that had an ancestor of its
\* own: the two heads share two commits or more.
SharedAncestorChosen ==
    /\ last.op = "merge" /\ last.status = "returned"
    /\ last.merge.message \notin {"Same commit", "Fast forward",
                                  "No shared parent"}
    /\ Cardinality(Ancestors(last.merge.source_commit)
                       \cap Ancestors(last.merge.dest_commit)) >= 2
    /\ last.merge.source_commit
           \notin Ancestors(last.merge.dest_commit)

\* C18: commit(k, ...) changes no reference but that of k, and
\* fast_forward(s, d) and merge(s, d) change no reference but that of d:
\* every other reference stays where it was, the source of a merge or a
\* fast_forward keeps its head, and no commit that was written changes, so
\* the keys that are not the destination keep their logs.
KeyIndependence ==
    [][last'.op \in {"commit", "fast_forward", "merge"}
       => LET target == IF last'.op = "commit" THEN last'.key
                        ELSE last'.dest
          IN /\ \A r \in DOMAIN refs \cup DOMAIN refs' :
                    (IsString(target) => r # translate_key(target))
                        => /\ r \in DOMAIN refs
                           /\ r \in DOMAIN refs'
                           /\ refs'[r] = refs[r]
             /\ \A i \in 1..Len(commits) :
                    i \in DOMAIN commits' /\ commits'[i] = commits[i]
             /\ (/\ last'.op # "commit"
                 /\ IsString(last'.key)
                 /\ has(last'.key))
                    => /\ has_after(last'.key)
                       /\ head_after(last'.key) = head(last'.key)]_vars

\* A three-way merge has moved dest to a new commit and the source is at
\* the head it had.
SourceKeptHead ==
    /\ last.op = "merge" /\ last.status = "returned"
    /\ last.merge.successful
    /\ last.merge.message \notin {"Same commit", "Fast forward"}
    /\ head(last.dest) # last.merge.dest_commit
    /\ head(last.key) = last.merge.source_commit
    /\ head(last.key) # head(last.dest)

\* C19: a call on the Repository that raises leaves every reference at the
\* commit it was at before the call.
FailureKeepsReferences ==
    [][last'.status = "raised" => refs' = refs]_vars

(***************************************************************************)
(* SpecObject: the Objects of two clients on one key.  A client obtains    *)
(* its Object from Repository.commit or Repository.get and then calls the  *)
(* methods of the Object; each method is one step.                         *)
(***************************************************************************)
\* Object._value_meth('__setitem__')(self.value, k, val) for a string k:
\* the value after the call, Raised when the class of the value has no
\* __setitem__ or a list is given a string for an index.
value_setitem(value, k, val) ==
    IF value.t = "obj" THEN setitem(value, k, val) ELSE Raised

\* Object._value_meth('__delitem__')(self.value, k) for a string k: a dict
\* raises KeyError on a missing key.
value_delitem(value, k) ==
    IF value.t = "obj" THEN pop(value, k, "obj") ELSE Raised

\* Object._value_meth('insert')(self.value, item): list.insert is called
\* without its index and raises TypeError; no other class has insert.
value_insert(value, item) == Raised

\* A wrapper that dirties the Object before the method has returned.
dirtify_first(obj, value) ==
    [obj EXCEPT !.value = IF value = Raised THEN @ ELSE value,
                !.dirty = TRUE]

\* Object.dirtify: the Object after the wrapped method has left value, or
\* has raised: "if above call fails, we're not dirtied".
dirtify(obj, value) ==
    IF value = Raised THEN obj
    ELSE [obj EXCEPT !.value = value, !.dirty = TRUE]

\* An Object that never commits by itself.
autocommits_never(obj) == FALSE

\* if self.autocommit
autocommits(obj) == obj.autocommit

\* The end of Object.commit after the Repository.commit of the step:
\* self._dirty = False, which a commit that raised does not reach.
committed(obj) ==
    IF last'.status = "returned" THEN [obj EXCEPT !.dirty = FALSE] ELSE obj

\* Object._read after the Repository call of the step.
read(obj) ==
    [obj EXCEPT !.value = value_after(head_after(obj.key)),
                !.head = head_after(obj.key),
                !.dirty = FALSE]

\* The call on an Object ends as the call on the Repository it made.
Ended(call) ==
    IF last'.status = "returned" THEN call
    ELSE [call EXCEPT !.status = "raised", !.error = last'.error]

\* A client holds an Object and is about to make a call.
ObjReady == meth = NoMeth
Holds(client) == objs[client] # NoObject

\* Repository.commit(key, data, autocommit=...) of a client that keeps the
\* Object it returns.
commit_object(client, key, data) ==
    /\ commit(key, data, EmptyMap)
    /\ objs' = IF last'.status = "returned"
               THEN [objs EXCEPT ![client] =
                         [last'.obj EXCEPT
                              !.autocommit = autocommit_of(client)]]
               ELSE objs
    /\ meth' = Ended(Meth("repo_commit", client, None))

\* Repository.get(key, commit, autocommit=...) of a client that keeps the
\* Object it returns.
get_object(client, key, oid) ==
    /\ get(key, oid)
    /\ objs' = IF last'.status = "returned"
               THEN [objs EXCEPT ![client] =
                         [last'.obj EXCEPT
                              !.autocommit = autocommit_of(client)]]
               ELSE objs
    /\ meth' = Ended(Meth("repo_get", client, None))

\* A method that dirtify wraps, value being what the wrapped method leaves
\* of self.value: the method raises, or self._dirty = True and, with
\* autocommit, self.commit().
dirtified(client, op, item, value) ==
    LET obj == objs[client]
        call == Meth(op, client, item)
    IN IF value = Raised THEN
           /\ objs' = [objs EXCEPT ![client] = dirtify(obj, value)]
           /\ meth' = [call EXCEPT !.status = "raised",
                                   !.error = "KeyError or TypeError"]
           /\ UNCHANGED <<refs, commits, trees, blobs, last, calc>>
       ELSE IF autocommits(obj) THEN
           /\ \E key \in {obj.key}, data \in {value} :
                  commit(key, data, EmptyMap)
           /\ objs' = [objs EXCEPT
                           ![client] = committed(dirtify(obj, value))]
           /\ meth' = Ended(call)
       ELSE
           /\ objs' = [objs EXCEPT ![client] = dirtify(obj, value)]
           /\ meth' = call
           /\ UNCHANGED <<refs, commits, trees, blobs, last, calc>>

\* Object.__setitem__(key, value)
obj_setitem(client, k, val) ==
    dirtified(client, "setitem", Str(k),
              value_setitem(objs[client].value, k, val))

\* Object.__delitem__(key)
obj_delitem(client, k) ==
    dirtified(client, "delitem", Str(k),
              value_delitem(objs[client].value, k))

\* Object.insert(item)
obj_insert(client, item) ==
    dirtified(client, "insert", item,
              value_insert(objs[client].value, item))

\* Object.commit()
obj_commit(client) ==
    /\ \E key \in {objs[client].key}, data \in {objs[client].value} :
           commit(key, data, EmptyMap)
    /\ objs' = [objs EXCEPT ![client] = committed(objs[client])]
    /\ meth' = Ended(Meth("commit", client, None))

\* Object.merge(other) for an Object of the same Repository.
obj_merge(client, other) ==
    /\ \E source \in {objs[other].key}, dest \in {objs[client].key} :
           merge(source, dest)
    /\ objs' = IF last'.status = "returned" /\ last'.merge.successful
               THEN [objs EXCEPT ![client] = read(objs[client])]
               ELSE objs
    /\ meth' = Ended(Meth("merge", client, None))

\* The client takes the result of its call.
ObjReturn ==
    /\ ~ObjReady
    /\ meth' = NoMeth
    /\ last' = NoCall
    /\ UNCHANGED <<refs, commits, trees, blobs, calc, objs>>

\* The key of the clients, and the ways they get an Object of it: by key,
\* or by one of the commits the key has been at.
ObjectKey == Str("k1")
ObjectGets ==
    {<<ObjectKey, NoCommit>>} \cup {<<None, oid>> : oid \in Oids}

NextObject ==
    \/ /\ ObjReady
       /\ \E client \in Clients :
              commit_object(client, ObjectKey, Obj(EmptyMap))
    \/ /\ ObjReady
       /\ \E client \in Clients, g \in ObjectGets :
              get_object(client, g[1], g[2])
    \/ /\ ObjReady
       /\ \E client \in Clients :
              Holds(client) /\ obj_setitem(client, "a", Num(1))
    \/ /\ ObjReady
       /\ \E client \in Clients : Holds(client) /\ obj_delitem(client, "a")
    \/ /\ ObjReady
       /\ \E client \in Clients : Holds(client) /\ obj_insert(client, Num(0))
    \/ /\ ObjReady
       /\ \E client \in Clients : Holds(client) /\ obj_commit(client)
    \/ /\ ObjReady
       /\ \E client \in Clients, other \in Clients :
              Holds(client) /\ Holds(other) /\ obj_merge(client, other)
    \/ ObjReturn

SpecObject == Init /\ [][NextObject]_vars

\* The call of the step is a call of the client, on its Object or for one.
CallOf(client) == meth'.op # "none" /\ meth'.client = client

Mutations == {"setitem", "delitem", "insert"}

\* C12: the dirty flag of an Object without autocommit.  An Object that get
\* or commit has just returned is not dirty; a mutation that returns makes
\* it dirty and one that raises leaves the flag; a commit of the Object
\* that returns, and the refresh of a successful merge, clear it; no other
\* step changes the Object.
DirtyLifecycle ==
    [][\A client \in Clients :
           ~autocommit_of(client)
           => /\ (/\ CallOf(client)
                  /\ meth'.op \in {"repo_get", "repo_commit"}
                  /\ meth'.status = "returned")
                     => ~objs'[client].dirty /\ ~objs'[client].autocommit
              /\ (CallOf(client) /\ meth'.op \in Mutations)
                     => objs'[client].dirty =
                            IF meth'.status = "returned" THEN TRUE
                            ELSE objs[client].dirty
              /\ (CallOf(client) /\ meth'.op = "commit")
                     => objs'[client].dirty =
                            IF meth'.status = "returned" THEN FALSE
                            ELSE objs[client].dirty
              /\ (CallOf(client) /\ meth'.op = "merge")
                     => objs'[client].dirty =
                            IF /\ meth'.status = "returned"
                               /\ last'.merge.successful
                            THEN FALSE
                            ELSE objs[client].dirty
              /\ (\/ ~CallOf(client)
                  \/ /\ meth'.op \in {"repo_get", "repo_commit"}
                     /\ meth'.status = "raised")
                     => objs'[client] = objs[client]]_vars

\* A mutation of a dirty Object without autocommit has raised, and the
\* Object is dirty as it was.
FailedMutationKeptDirty ==
    /\ meth.op = "delitem" /\ meth.status = "raised"
    /\ ~autocommit_of(meth.client)
    /\ objs[meth.client].dirty
    /\ objs[meth.client].value = Obj(EmptyMap)

\* C17: when a mutation of an Object with autocommit returns, the
\* reference of its key is at one new commit whose parent is the head the
\* key had and whose document is the value of the Object, and the Object
\* is not dirty; when the mutation raises no commit has been written.
AutocommitCommits ==
    [][\A client \in Clients :
           (/\ CallOf(client)
            /\ meth'.op \in Mutations
            /\ objs[client].autocommit)
           => IF meth'.status = "returned"
              THEN /\ IsString(objs[client].key)
                   /\ has(objs[client].key)
                   /\ Len(commits') = Len(commits) + 1
                   /\ has_after(objs[client].key)
                   /\ head_after(objs[client].key) = Len(commits) + 1
                   /\ commits'[Len(commits) + 1].parents
                          = <<head(objs[client].key)>>
                   /\ value_after(Len(commits) + 1) = objs'[client].value
                   /\ ~objs'[client].dirty
              ELSE UNCHANGED <<refs, commits, trees, blobs>>]_vars

\* A mutation of an Object with autocommit has returned after another
\* client has moved the key: the commit it wrote is the head of the key.
AutocommitDone ==
    /\ meth.op = "setitem" /\ meth.status = "returned"
    /\ objs[meth.client].autocommit
    /\ ~objs[meth.client].dirty
    /\ head(objs[meth.client].key) = Len(commits)
    /\ Len(commits) >= 3
    /\ commits[Len(commits)].parents # <<objs[meth.client].head>>
    /\ value_of(Len(commits)) = Obj([k \in {"a"} |-> Num(1)])

\* C20: an Object that is not dirty has for head a commit whose document
\* is the value of the Object, and after a commit of the Object that
\* returned the head of the Object is the head of its key.
HandleConsistency ==
    /\ \A client \in Clients :
           (Holds(client) /\ ~objs[client].dirty)
               => value_of(objs[client].head) = objs[client].value
    /\ (meth.op = "commit" /\ meth.status = "returned")
           => objs[meth.client].head = head(objs[meth.client].key)

(***************************************************************************)
(* History across a merge.                                                 *)
(***************************************************************************)
\* C21: after a merge that returns success, by whichever path, the commit
\* source was at and the commit dest was at before the call are both
\* among the commits the walk from the new head of dest yields.
MergeKeepsHistory ==
    [][(MergeReturned /\ last'.merge.successful)
       => /\ has_after(last'.dest)
          /\ \E new_head \in {head_after(last'.dest)} :
                 {head(last'.key), head(last'.dest)}
                     \subseteq Ancestors(new_head)']_vars

\* A merge of two heads of which neither reaches the other has returned
\* success: the walk from the head of dest yields both.
DivergedHeadsMerged ==
    /\ last.op = "merge" /\ last.status = "returned"
    /\ last.merge.successful
    /\ last.merge.source_commit \notin Ancestors(last.merge.dest_commit)
    /\ last.merge.dest_commit \notin Ancestors(last.merge.source_commit)
    /\ {last.merge.source_commit, last.merge.dest_commit}
           \subseteq Ancestors(head(last.dest))

\* C22: a merge repeated at once after a merge of the same source and dest
\* that returned success returns success too, writes no commit and leaves
\* dest at the commit it was at.
RepeatedMergeIdempotent ==
    [][(Merged /\ last'.op = "merge"
               /\ last'.key = last.key /\ last'.dest = last.dest)
       => /\ MergeReturned
          /\ last'.merge.successful
          /\ UNCHANGED commits
          /\ has_after(last'.dest)
          /\ head_after(last'.dest) = head(last'.dest)]_vars

====
